---- MODULE Spec2Model ----
(***************************************************************************)
(* binance-oco.js: one trade on one pair.  The program normalises its      *)
(* arguments against the pair's filters, optionally places an entry buy,   *)
(* then places and swaps a stop-loss sell and a target sell, driven by     *)
(* REST callbacks, the trade-price stream and the order-status stream.     *)
(*                                                                         *)
(* Units.  Prices are integers (one tick = TickSize units).  Quantities    *)
(* are integers counting thousandths of a lot step (one step = StepSize    *)
(* units), so that the fee factor 0.999 applied to a normalised quantity   *)
(* is computed exactly, as BigNumber computes it.                          *)
(***************************************************************************)
EXTENDS Integers, Sequences, FiniteSets, Bags, TLC

VARIABLES
    pc,               \* "init" | "pricing" | "run" | "exit"
    exitCode,         \* -1 while running, else the code given to process.exit
    exitAt,           \* the process.exit site that ended the trade
    amount, scaleOutAmount, buyPrice, buyLimitPrice, stopPrice, targetPrice,
    cancelPrice, nonBnbFees,
    stopSellAmount, targetSellAmount,
    buyOrderId, stopOrderId, targetOrderId,
    isLimitEntry, isStopEntry, isCancelling,
    calls,            \* bag of REST calls in flight: sent, or answered and not called back
    orders,           \* the exchange's order book for this account, indexed by order id
    events,           \* order-status stream: execution reports not yet delivered
    feeCalcs          \* number of runs of calculateStopAndTargetAmounts

cfgvars == <<amount, scaleOutAmount, buyPrice, buyLimitPrice, stopPrice, targetPrice,
             cancelPrice, nonBnbFees>>
idvars == <<buyOrderId, stopOrderId, targetOrderId>>
amtvars == <<stopSellAmount, targetSellAmount>>
flagvars == <<isLimitEntry, isStopEntry>>
exitvars == <<pc, exitCode, exitAt>>
vars == <<pc, exitCode, exitAt, amount, scaleOutAmount, buyPrice, buyLimitPrice,
          stopPrice, targetPrice, cancelPrice, nonBnbFees, stopSellAmount, targetSellAmount, buyOrderId,
          stopOrderId, targetOrderId, isLimitEntry, isStopEntry, isCancelling,
          calls, orders, events, feeCalcs>>

\* An argument that was not given on the command line (undefined in the source).
None == -1

\* Bound: the number of orders the exchange accepts in one run.
MaxOrders == 4

\* Command-line inputs and exchange filters the startup draws from.
RawAmounts == {10000, 10500}
RawScaleOuts == {None, 4000}
RawBuyPrices == {None, 0, 6}
RawBuyLimitPrices == {None, 8}
RawStopPrices == {None, 4}
RawTargetPrices == {None, 8, 7}
RawCancelPrices == {None, 4}
StepSizes == {1000}
TickSizes == {2}
MinQtys == {1000, 5000}
MinPrices == {0, 2}
MinNotionals == {0, 30000}
CurrentPrices == {5, 6, 7}
TradePrices == {3, 4, 6, 8, 9}
Assets == {"BNB", "BTC"}

\* The cancel price is read only while a priced entry order is outstanding, the buy
\* limit price only when a priced entry is placed and the fee flag only on an entry
\* fill: without such an entry they are left at their defaults.
CancelPricesFor(b) == IF b = None \/ b = 0 THEN {None} ELSE RawCancelPrices
BuyLimitPricesFor(b) == IF b = None \/ b = 0 THEN {None} ELSE RawBuyLimitPrices
FeeFlagsFor(b) == IF b = None THEN {FALSE} ELSE BOOLEAN

\* The three options of an entry are read on different lines (the buy limit price at
\* 296, the cancel price at 322-331, the fee flag at 192) and none reads another: the
\* startup draws them one at a time, each beside the defaults of the other two.
OneEntryOption(B, c, F) ==
    (IF B # None THEN 1 ELSE 0) + (IF c # None THEN 1 ELSE 0) + (IF F THEN 1 ELSE 0) <= 1

\* line 119: binance.roundStep truncates the quantity to a multiple of stepSize.
roundStep(volume, stepSize) == (volume \div stepSize) * stepSize

\* line 128: binance.roundTicks rounds the price to the tick's precision (half up).
roundTicks(p, tickSize) == ((2 * p + tickSize) \div (2 * tickSize)) * tickSize

\* lines 118-125: the normalised quantity, or None where the source exits.
munge_and_check_quantity(volume, stepSize, minQty) ==
    LET v == roundStep(volume, stepSize) IN IF v < minQty THEN None ELSE v

\* lines 127-134: the normalised or None where the source exits.
munge_and_check_price(p, tickSize, minPrice) ==
    LET q == roundTicks(p, tickSize) IN IF q < minPrice THEN None ELSE q

\* lines 136-141: TRUE where the source passes the check.
check_notional(p, volume, minNotional) == ~(p * volume < minNotional)

\* line 188: NON_BNB_TRADING_FEE = 0.001, in thousandths.
NON_BNB_TRADING_FEE == 1

\* Mutant of calculateSellAmount: the non-BNB-fees flag is not read.
calculateSellAmountNoFlag(commissionAsset, sellAmount) ==
    IF commissionAsset = "BNB"
    THEN sellAmount
    ELSE (sellAmount * (1000 - NON_BNB_TRADING_FEE)) \div 1000

\* lines 190-195
calculateSellAmount(commissionAsset, sellAmount) ==
    IF commissionAsset = "BNB" /\ ~nonBnbFees
    THEN sellAmount
    ELSE (sellAmount * (1000 - NON_BNB_TRADING_FEE)) \div 1000

\* lines 143-186: the startup normalisation.  ok is FALSE where the source exits(1).
Normalize(a, S, b, B, s, l, t, c, step, tick, minQty, minPrice, minNotional) ==
    LET mq(v) == munge_and_check_quantity(v, step, minQty)
        mp(v) == munge_and_check_price(v, tick, minPrice)
        amt == mq(a)
        so == IF S = None THEN None ELSE mq(S)
        bp == IF b = None THEN None ELSE mp(b)
        bl == IF b # None /\ B # None THEN mp(B) ELSE B
        sp == IF s = None THEN None ELSE mp(s)
        lp == IF l = None THEN None ELSE mp(l)
        tsell == IF so = None THEN amt ELSE so
        tp == IF t = None THEN None ELSE mp(t)
        cp == IF c = None THEN None ELSE mp(c)
        remainingAmount == amt - tsell
        okAmount == amt # None /\ (S # None => so # None)
        okBuy == b # None =>
                    /\ bp # None
                    /\ check_notional(bp, amt, minNotional)
                    /\ (B # None => bl # None)
        okStop == s # None =>
                    /\ sp # None
                    /\ IF l # None
                       THEN lp # None /\ check_notional(lp, amt, minNotional)
                       ELSE check_notional(sp, amt, minNotional)
        okTarget == t # None =>
                    /\ tp # None
                    /\ check_notional(tp, tsell, minNotional)
                    /\ (remainingAmount # 0 /\ s # None) =>
                          /\ mq(remainingAmount) # None
                          /\ check_notional(sp, remainingAmount, minNotional)
        okCancel == c # None => cp # None
    IN [ok |-> okAmount /\ okBuy /\ okStop /\ okTarget /\ okCancel,
        amount |-> amt, scaleOutAmount |-> so, buyPrice |-> bp, buyLimitPrice |-> bl,
        stopPrice |-> sp,
        targetPrice |-> tp, cancelPrice |-> cp, targetSellAmount |-> tsell]

\* A REST call: the request as sent (st = "sent"), then the exchange's answer
\* (st = "ok" with the response's orderId and status, or st = "err").  A buy carries
\* its price and, for a stop-limit order, its trigger (the stopPrice option).
BuyCall(type, q, price, trigger) ==
    [kind |-> "buy", type |-> type, qty |-> q, oid |-> 0, st |-> "sent", status |-> "NONE",
     asset |-> "NONE", price |-> price, trigger |-> trigger]
SellCall(type, q) ==
    [kind |-> "sell", type |-> type, qty |-> q, oid |-> 0, st |-> "sent", status |-> "NONE",
     asset |-> "NONE"]
CancelCall(role, id) ==
    [kind |-> "cancel", type |-> role, qty |-> 0, oid |-> id, st |-> "sent", status |-> "NONE",
     asset |-> "NONE"]

\* The calls in flight form a bag: the order in which they were sent decides nothing.
Put(cs, c) == cs (+) SetToBag({c})
Take(cs, c) == cs (-) SetToBag({c})

Running == pc \in {"pricing", "run"}

\* process.exit(code) at the named site.
Exit(code, site) == pc' = "exit" /\ exitCode' = code /\ exitAt' = site

\* The configuration never changes after the startup; the placement routines read it
\* in the post-state so that the startup, which sets it, can use them too.

\* lines 227-235: binance.sell(..., STOP_LOSS_LIMIT, sellComplete) for stopAmt.
placeStopOrder(cs, stopAmt) ==
    /\ calls' = Put(cs, SellCall("STOP_LOSS_LIMIT", stopAmt))
    /\ stopSellAmount' = stopAmt

\* lines 237-249: the target sell, then with a scale-out the reduced stop.
placeTargetOrder(cs, stopAmt, targetAmt) ==
    LET withTarget == Put(cs, SellCall("LIMIT", targetAmt)) IN
    IF stopPrice' # None /\ targetAmt # stopAmt
    THEN placeStopOrder(withTarget, stopAmt - targetAmt)
    ELSE calls' = withTarget /\ stopSellAmount' = stopAmt

\* Mutant of placeSellOrder: with both prices set, both legs are placed at once.
placeSellOrderBothLegs(cs, stopAmt, targetAmt) ==
    IF stopPrice' # None /\ targetPrice' # None
    THEN /\ calls' = Put(Put(cs, SellCall("STOP_LOSS_LIMIT", stopAmt)),
                         SellCall("LIMIT", targetAmt))
         /\ stopSellAmount' = stopAmt
         /\ pc' = "run" /\ UNCHANGED <<exitCode, exitAt>>
    ELSE IF stopPrice' # None
    THEN placeStopOrder(cs, stopAmt) /\ pc' = "run" /\ UNCHANGED <<exitCode, exitAt>>
    ELSE IF targetPrice' # None
    THEN placeTargetOrder(cs, stopAmt, targetAmt) /\ pc' = "run" /\ UNCHANGED <<exitCode, exitAt>>
    ELSE calls' = cs /\ stopSellAmount' = stopAmt /\ Exit(0, "placeSellOrder")

\* lines 251-259
placeSellOrder(cs, stopAmt, targetAmt) ==
    IF stopPrice' # None
    THEN placeStopOrder(cs, stopAmt) /\ pc' = "run" /\ UNCHANGED <<exitCode, exitAt>>
    ELSE IF targetPrice' # None
    THEN placeTargetOrder(cs, stopAmt, targetAmt) /\ pc' = "run" /\ UNCHANGED <<exitCode, exitAt>>
    ELSE calls' = cs /\ stopSellAmount' = stopAmt /\ Exit(0, "placeSellOrder")

Init ==
    /\ pc = "init" /\ exitCode = -1 /\ exitAt = "none"
    /\ amount = None /\ scaleOutAmount = None /\ buyPrice = None /\ buyLimitPrice = None
    /\ stopPrice = None
    /\ targetPrice = None /\ cancelPrice = None /\ nonBnbFees = FALSE
    /\ stopSellAmount = 0 /\ targetSellAmount = 0
    /\ buyOrderId = 0 /\ stopOrderId = 0 /\ targetOrderId = 0
    /\ isLimitEntry = FALSE /\ isStopEntry = FALSE /\ isCancelling = FALSE
    /\ calls = EmptyBag /\ orders = <<>> /\ events = <<>>
    /\ feeCalcs = 0

\* lines 118-313: the body of the exchangeInfo callback on the arguments and the
\* pair's filters given: the normalisation, then the entry decision.
exchangeInfoCallback(a, S, b, B, s, t, c, F, step, tick, minQty, minPrice, minNotional) ==
    LET n == Normalize(a, S, b, B, s, None, t, c, step, tick, minQty, minPrice,
                       minNotional) IN
    /\ IF ~n.ok
       THEN /\ Exit(1, "conformance")
            /\ UNCHANGED <<cfgvars, amtvars, calls>>
       ELSE /\ amount' = n.amount /\ scaleOutAmount' = n.scaleOutAmount
            /\ buyPrice' = n.buyPrice /\ buyLimitPrice' = n.buyLimitPrice
            /\ stopPrice' = n.stopPrice
            /\ targetPrice' = n.targetPrice /\ cancelPrice' = n.cancelPrice
            /\ nonBnbFees' = F
            /\ targetSellAmount' = n.targetSellAmount
            /\ IF n.buyPrice # None /\ n.buyPrice = 0
               THEN /\ calls' = Put(calls, BuyCall("MARKET", n.amount, None, None))
                    /\ stopSellAmount' = n.amount
                    /\ pc' = "run" /\ UNCHANGED <<exitCode, exitAt>>
               ELSE IF n.buyPrice # None /\ n.buyPrice > 0
               THEN /\ calls' = calls /\ stopSellAmount' = n.amount
                    /\ pc' = "pricing" /\ UNCHANGED <<exitCode, exitAt>>
               ELSE placeSellOrder(calls, n.amount, n.targetSellAmount)
    /\ UNCHANGED <<idvars, flagvars, isCancelling, orders, events, feeCalcs>>

\* lines 101-315: the exchangeInfo callback, on any arguments and any filters.
exchangeInfo ==
    /\ pc = "init"
    /\ \E a \in RawAmounts, S \in RawScaleOuts, b \in RawBuyPrices, s \in RawStopPrices,
          t \in RawTargetPrices, step \in StepSizes, tick \in TickSizes,
          minQty \in MinQtys, minPrice \in MinPrices, minNotional \in MinNotionals :
       \E B \in BuyLimitPricesFor(b), c \in CancelPricesFor(b), F \in FeeFlagsFor(b) :
          /\ OneEntryOption(B, c, F)
          /\ exchangeInfoCallback(a, S, b, B, s, t, c, F, step, tick, minQty, minPrice,
                                  minNotional)

\* Mutant of pricesCallback: the stop entry's limit is the buy price even when a buy
\* limit price is given.
pricesCallbackNoBuyLimit(currentPrice) ==
    /\ IF buyPrice > currentPrice
       THEN /\ isStopEntry' = TRUE /\ isLimitEntry' = isLimitEntry
            /\ calls' = Put(calls, BuyCall("STOP_LOSS_LIMIT", amount, buyPrice, buyPrice))
       ELSE /\ isLimitEntry' = TRUE /\ isStopEntry' = isStopEntry
            /\ calls' = Put(calls, BuyCall("LIMIT", amount, buyPrice, None))
    /\ pc' = "run"
    /\ UNCHANGED <<exitCode, exitAt, cfgvars, amtvars, idvars, isCancelling, orders,
                   events, feeCalcs>>

\* lines 288-309: the body of the binance.prices callback on the ticker's price: it
\* chooses the entry order's type.
pricesCallback(currentPrice) ==
    /\ IF buyPrice > currentPrice
       THEN /\ isStopEntry' = TRUE /\ isLimitEntry' = isLimitEntry
            /\ calls' = Put(calls, BuyCall("STOP_LOSS_LIMIT", amount,
                                           IF buyLimitPrice # None THEN buyLimitPrice
                                           ELSE buyPrice,
                                           buyPrice))
       ELSE /\ isLimitEntry' = TRUE /\ isStopEntry' = isStopEntry
            /\ calls' = Put(calls, BuyCall("LIMIT", amount, buyPrice, None))
    /\ pc' = "run"
    /\ UNCHANGED <<exitCode, exitAt, cfgvars, amtvars, idvars, isCancelling, orders,
                   events, feeCalcs>>

\* lines 287-310: the binance.prices callback, on any current price.
prices ==
    /\ pc = "pricing"
    /\ \E currentPrice \in CurrentPrices : pricesCallback(currentPrice)

(***************************************************************************)
(* The exchange.  It answers each REST call once, in any order, keeps the  *)
(* orders it accepted and reports every change of an order's status on the *)
(* order-status stream.  Any call may fail; a cancel succeeds only on an   *)
(* order that is still open.                                               *)
(***************************************************************************)
Answer(c, d) == Put(Take(calls, c), d)

Report(id, status, asset) == [orderId |-> id, status |-> status, asset |-> asset]

\* The exchange accepts an order.  A market order fills at once and a priced buy may:
\* the response then says FILLED and names the commission asset.  A sell that fills at
\* once is the same as one that fills before its response is delivered (ExchangeFill),
\* since sellComplete does not read the response's status.
ExchangePlace(c) ==
    /\ Running
    /\ c.st = "sent" /\ c.kind \in {"buy", "sell"}
    /\ c.qty > 0
    /\ Len(orders) < MaxOrders
    /\ \E status \in {"NEW", "FILLED"}, asset \in Assets \cup {"NONE"} :
        LET id == Len(orders) + 1 IN
        /\ c.type = "MARKET" => status = "FILLED"
        /\ c.kind = "sell" => status = "NEW"
        /\ (status = "NEW") = (asset = "NONE")
        /\ orders' = Append(orders, [side |-> c.kind, type |-> c.type,
                                     qty |-> c.qty, status |-> status])
        /\ calls' = Answer(c, [c EXCEPT !.st = "ok", !.oid = id, !.status = status,
                                               !.asset = asset])
        /\ events' = IF status = "FILLED" THEN Append(events, Report(id, "FILLED", asset))
                     ELSE events
    /\ UNCHANGED <<exitvars, cfgvars, amtvars, idvars, flagvars, isCancelling, feeCalcs>>

\* The exchange cancels an open order.
ExchangeCancel(c) ==
    /\ Running
    /\ c.st = "sent" /\ c.kind = "cancel"
    /\ c.oid \in 1..Len(orders)
    /\ orders[c.oid].status = "NEW"
    /\ orders' = [orders EXCEPT ![c.oid].status = "CANCELED"]
    /\ calls' = Answer(c, [c EXCEPT !.st = "ok", !.status = "CANCELED"])
    /\ events' = Append(events, Report(c.oid, "CANCELED", "NONE"))
    /\ UNCHANGED <<exitvars, cfgvars, amtvars, idvars, flagvars, isCancelling, feeCalcs>>

\* The call fails: the order is not placed, or not cancelled.
ExchangeReject(c) ==
    /\ Running
    /\ c.st = "sent"
    /\ calls' = Answer(c, [c EXCEPT !.st = "err"])
    /\ UNCHANGED <<exitvars, cfgvars, amtvars, idvars, flagvars, isCancelling, orders,
                   events, feeCalcs>>

\* An open order fills.
ExchangeFill(id) ==
    /\ Running
    /\ orders[id].status = "NEW"
    /\ \E asset \in Assets :
        /\ orders[id].side = "sell" => asset = "BNB"
        /\ events' = Append(events, Report(id, "FILLED", asset))
    /\ orders' = [orders EXCEPT ![id].status = "FILLED"]
    /\ UNCHANGED <<exitvars, cfgvars, amtvars, idvars, flagvars, isCancelling, calls,
                   feeCalcs>>

\* An open order ends without the program asking: it expires.
ExchangeExpire(id) ==
    /\ Running
    /\ orders[id].status = "NEW"
    /\ events' = Append(events, Report(id, "EXPIRED", "NONE"))
    /\ orders' = [orders EXCEPT ![id].status = "EXPIRED"]
    /\ UNCHANGED <<exitvars, cfgvars, amtvars, idvars, flagvars, isCancelling, calls,
                   feeCalcs>>

(***************************************************************************)
(* The program's callbacks.                                                *)
(***************************************************************************)

\* lines 197-200, on the amounts given.
calculateStopAndTargetAmounts(commissionAsset, stopAmt, targetAmt) ==
    [stop |-> calculateSellAmount(commissionAsset, stopAmt),
     target |-> calculateSellAmount(commissionAsset, targetAmt)]

\* lines 263-279
buyComplete(c) ==
    /\ Running
    /\ c.kind = "buy" /\ c.st \in {"ok", "err"}
    /\ UNCHANGED cfgvars
    /\ IF c.st = "err"
       THEN /\ Exit(1, "buyComplete")
            /\ calls' = Take(calls, c)
            /\ UNCHANGED <<amtvars, buyOrderId, feeCalcs>>
       ELSE IF c.status = "FILLED"
       THEN LET a == calculateStopAndTargetAmounts(c.asset, stopSellAmount,
                                                   targetSellAmount) IN
            /\ feeCalcs' = feeCalcs + 1
            /\ targetSellAmount' = a.target
            /\ placeSellOrder(Take(calls, c), a.stop, a.target)
            /\ UNCHANGED buyOrderId
       ELSE /\ buyOrderId' = c.oid
            /\ calls' = Take(calls, c)
            /\ UNCHANGED <<exitvars, amtvars, feeCalcs>>
    /\ UNCHANGED <<stopOrderId, targetOrderId, flagvars, isCancelling, orders, events>>

\* Mutant of sellComplete: the order id is recorded with a single sell price too.
sellCompleteAlwaysRecords(c) ==
    /\ Running
    /\ c.kind = "sell" /\ c.st \in {"ok", "err"}
    /\ calls' = Take(calls, c)
    /\ IF c.st = "err"
       THEN Exit(1, "sellComplete") /\ UNCHANGED <<stopOrderId, targetOrderId>>
       ELSE /\ UNCHANGED exitvars
            /\ IF c.type = "STOP_LOSS_LIMIT"
               THEN stopOrderId' = c.oid /\ UNCHANGED targetOrderId
               ELSE IF c.type = "LIMIT"
               THEN targetOrderId' = c.oid /\ UNCHANGED stopOrderId
               ELSE UNCHANGED <<stopOrderId, targetOrderId>>
    /\ UNCHANGED <<cfgvars, amtvars, buyOrderId, flagvars, isCancelling, orders, events,
                   feeCalcs>>

\* lines 205-225
sellComplete(c) ==
    /\ Running
    /\ c.kind = "sell" /\ c.st \in {"ok", "err"}
    /\ calls' = Take(calls, c)
    /\ IF c.st = "err"
       THEN Exit(1, "sellComplete") /\ UNCHANGED <<stopOrderId, targetOrderId>>
       ELSE IF ~(stopPrice # None /\ targetPrice # None)
       THEN Exit(0, "sellComplete") /\ UNCHANGED <<stopOrderId, targetOrderId>>
       ELSE /\ UNCHANGED exitvars
            /\ IF c.type = "STOP_LOSS_LIMIT"
               THEN stopOrderId' = c.oid /\ UNCHANGED targetOrderId
               ELSE IF c.type = "LIMIT"
               THEN targetOrderId' = c.oid /\ UNCHANGED stopOrderId
               ELSE UNCHANGED <<stopOrderId, targetOrderId>>
    /\ UNCHANGED <<cfgvars, amtvars, buyOrderId, flagvars, isCancelling, orders, events,
                   feeCalcs>>

\* Mutant of cancelFailed: a failed cancel ends the trade, as a failed placement does.
cancelFailedFatal(c) ==
    /\ calls' = Take(calls, c)
    /\ Exit(1, "cancelFailed")
    /\ UNCHANGED <<idvars, amtvars>>

\* lines 335-338, 352-355, 365-368: a failed cancel is logged and the callback returns.
cancelFailed(c) ==
    /\ calls' = Take(calls, c)
    /\ UNCHANGED <<exitvars, idvars, amtvars>>

\* lines 333-342: the callback of the entry order's cancel.
cancelBuyCallback(c) ==
    /\ Running
    /\ c.kind = "cancel" /\ c.type = "entry" /\ c.st \in {"ok", "err"}
    /\ isCancelling' = FALSE
    /\ IF c.st = "err"
       THEN cancelFailed(c)
       ELSE /\ Exit(0, "cancelBuy")
            /\ calls' = Take(calls, c)
            /\ UNCHANGED <<idvars, amtvars>>
    /\ UNCHANGED <<cfgvars, flagvars, orders, events, feeCalcs>>

\* lines 350-360: the callback of the stop order's cancel.
cancelStopCallback(c) ==
    /\ Running
    /\ c.kind = "cancel" /\ c.type = "stop" /\ c.st \in {"ok", "err"}
    /\ UNCHANGED cfgvars
    /\ isCancelling' = FALSE
    /\ IF c.st = "err"
       THEN cancelFailed(c)
       ELSE /\ stopOrderId' = 0
            /\ placeTargetOrder(Take(calls, c), stopSellAmount, targetSellAmount)
            /\ UNCHANGED <<exitvars, targetSellAmount, buyOrderId, targetOrderId>>
    /\ UNCHANGED <<flagvars, orders, events, feeCalcs>>

\* lines 363-376: the callback of the target order's cancel.
cancelTargetCallback(c) ==
    /\ Running
    /\ c.kind = "cancel" /\ c.type = "target" /\ c.st \in {"ok", "err"}
    /\ isCancelling' = FALSE
    /\ IF c.st = "err"
       THEN cancelFailed(c)
       ELSE /\ targetOrderId' = 0
            /\ placeStopOrder(Take(calls, c),
                              IF targetSellAmount # stopSellAmount
                              THEN stopSellAmount + targetSellAmount
                              ELSE stopSellAmount)
            /\ UNCHANGED <<exitvars, targetSellAmount, buyOrderId, stopOrderId>>
    /\ UNCHANGED <<cfgvars, flagvars, orders, events, feeCalcs>>

\* Mutant of entryCancelDue: the price must pass the cancel price, not only reach it.
entryCancelDueStrict(p) ==
    \/ isStopEntry /\ p < cancelPrice
    \/ isLimitEntry /\ p > cancelPrice

\* lines 328-329: the price has crossed the cancel price, in the entry's direction.
entryCancelDue(p) ==
    \/ isStopEntry /\ p <= cancelPrice
    \/ isLimitEntry /\ p >= cancelPrice

\* Mutant of stopCancelDue: the stop is cancelled whether or not a target is known.
stopCancelDueAnyTarget(p) == stopOrderId # 0 /\ p >= targetPrice

\* line 347: only the stop is known and the price is at or above the target.
stopCancelDue(p) == stopOrderId # 0 /\ targetOrderId = 0 /\ p >= targetPrice

\* line 361: only the target is known and the price is at or below the stop.
targetCancelDue(p) == targetOrderId # 0 /\ stopOrderId = 0 /\ p <= stopPrice

\* Mutant of noCancelInFlight: the guard is not consulted.
noCancelInFlightUnchecked == TRUE

\* lines 330, 347, 361: the guard every cancel decision ends with.
noCancelInFlight == ~isCancelling

\* lines 321-378: which order the trades handler asks to cancel at this price.
tradesCancel(p) ==
    IF buyOrderId # 0
    THEN IF cancelPrice = None
         THEN "none"
         ELSE IF entryCancelDue(p) /\ noCancelInFlight
         THEN "entry"
         ELSE "none"
    ELSE IF stopOrderId # 0 \/ targetOrderId # 0
    THEN IF stopCancelDue(p) /\ noCancelInFlight
         THEN "stop"
         ELSE IF targetCancelDue(p) /\ noCancelInFlight
         THEN "target"
         ELSE "none"
    ELSE "none"

\* lines 317-379: the trade-stream handler; it only ever issues a cancel.
trades(p) ==
    /\ Running
    /\ LET role == tradesCancel(p) IN
       IF role = "none"
       THEN UNCHANGED <<isCancelling, calls>>
       ELSE /\ isCancelling' = TRUE
            /\ calls' = Put(calls, CancelCall(role,
                            CASE role = "entry" -> buyOrderId
                              [] role = "stop" -> stopOrderId
                              [] role = "target" -> targetOrderId))
    /\ UNCHANGED <<exitvars, cfgvars, amtvars, idvars, flagvars, orders, events, feeCalcs>>

\* Mutant of checkOrderFilled: a partial fill counts as the fill.
checkOrderFilledOnPartial(orderStatus) ==
    IF orderStatus = "NEW"
    THEN "return"
    ELSE IF orderStatus # "FILLED" /\ orderStatus # "PARTIALLY_FILLED"
    THEN "exit"
    ELSE "filled"

\* lines 381-397: "return", "exit" or "filled".
checkOrderFilled(orderStatus) ==
    IF orderStatus = "NEW" \/ orderStatus = "PARTIALLY_FILLED"
    THEN "return"
    ELSE IF orderStatus # "FILLED"
    THEN "exit"
    ELSE "filled"

\* Mutant of entryFilled: the entry order's id is not zeroed.
entryFilledKeepsId(data) ==
    LET a == calculateStopAndTargetAmounts(data.asset, stopSellAmount, targetSellAmount) IN
    /\ buyOrderId' = buyOrderId
    /\ feeCalcs' = feeCalcs + 1
    /\ targetSellAmount' = a.target
    /\ placeSellOrder(calls, a.stop, a.target)

\* lines 405-410: the entry order has filled.
entryFilled(data) ==
    LET a == calculateStopAndTargetAmounts(data.asset, stopSellAmount, targetSellAmount) IN
    /\ buyOrderId' = 0
    /\ feeCalcs' = feeCalcs + 1
    /\ targetSellAmount' = a.target
    /\ placeSellOrder(calls, a.stop, a.target)

\* Mutant of sellLegFilled: the other leg is cancelled before the exit.
sellLegFilledCancelsOther(site) ==
    /\ Exit(0, site)
    /\ calls' = IF site = "stopFilled"
                THEN Put(calls, CancelCall("target", targetOrderId))
                ELSE Put(calls, CancelCall("stop", stopOrderId))
    /\ UNCHANGED <<amtvars, buyOrderId, feeCalcs>>

\* lines 412-414 and 416-418: a sell leg has filled; the process exits.
sellLegFilled(site) ==
    /\ Exit(0, site)
    /\ UNCHANGED <<amtvars, buyOrderId, calls, feeCalcs>>

\* lines 381-397 applied to the report of a known order; filled is the orderFilled callback.
onOrderReport(data, filled) ==
    CASE checkOrderFilled(data.status) = "return" ->
            UNCHANGED <<exitvars, amtvars, buyOrderId, calls, feeCalcs>>
      [] checkOrderFilled(data.status) = "exit" ->
            /\ Exit(1, "checkOrderFilled")
            /\ UNCHANGED <<amtvars, buyOrderId, calls, feeCalcs>>
      [] checkOrderFilled(data.status) = "filled" -> filled

\* lines 401-420: the order-status handler on one execution report.
userDataHandler(data) ==
    /\ UNCHANGED cfgvars
    /\ IF data.orderId = buyOrderId
       THEN onOrderReport(data, entryFilled(data))
       ELSE IF data.orderId = stopOrderId
       THEN onOrderReport(data, sellLegFilled("stopFilled"))
       ELSE IF data.orderId = targetOrderId
       THEN onOrderReport(data, sellLegFilled("targetFilled"))
       ELSE UNCHANGED <<exitvars, amtvars, buyOrderId, calls, feeCalcs>>
    /\ UNCHANGED <<stopOrderId, targetOrderId, flagvars, isCancelling, orders>>

\* The stream delivers its oldest report; delivery is at least once, so the report
\* may stay in the stream and come again.
userData(again) ==
    /\ Running
    /\ events # <<>>
    /\ events' = IF again THEN events ELSE Tail(events)
    /\ userDataHandler(Head(events))

\* The reports that say an order is open or partly filled.
userDataProgress(id, status) ==
    /\ Running
    /\ orders[id].status = "NEW"
    /\ UNCHANGED events
    /\ userDataHandler(Report(id, status, "NONE"))

Next ==
    \/ exchangeInfo
    \/ prices
    \/ \E c \in BagToSet(calls) : ExchangePlace(c)
    \/ \E c \in BagToSet(calls) : ExchangeCancel(c)
    \/ \E c \in BagToSet(calls) : ExchangeReject(c)
    \/ \E id \in 1..Len(orders) : ExchangeFill(id)
    \/ \E id \in 1..Len(orders) : ExchangeExpire(id)
    \/ \E c \in BagToSet(calls) : buyComplete(c)
    \/ \E c \in BagToSet(calls) : sellComplete(c)
    \/ \E c \in BagToSet(calls) : cancelBuyCallback(c)
    \/ \E c \in BagToSet(calls) : cancelStopCallback(c)
    \/ \E c \in BagToSet(calls) : cancelTargetCallback(c)
    \/ \E p \in TradePrices : trades(p)
    \/ \E again \in BOOLEAN : userData(again)
    \/ \E id \in 1..Len(orders), status \in {"NEW", "PARTIALLY_FILLED"} :
          userDataProgress(id, status)

Spec == Init /\ [][Next]_vars

TypeOK ==
    /\ pc \in {"init", "pricing", "run", "exit"}
    /\ exitCode \in {-1, 0, 1}
    /\ buyOrderId \in 0..MaxOrders /\ stopOrderId \in 0..MaxOrders
    /\ targetOrderId \in 0..MaxOrders
    /\ isCancelling \in BOOLEAN

(***************************************************************************)
(* Vocabulary of the properties.                                           *)
(***************************************************************************)
CancelsInFlight == {c \in BagToSet(calls) : c.kind = "cancel"}

\* The number of cancels in flight, copies counted.
CancelCount == BagCardinality([c \in CancelsInFlight |-> calls[c]])

\* A trade-stream message at price p makes the handler send this cancel.
IssuesCancel(p, role, id) ==
    ENABLED (trades(p) /\ calls' = Put(calls, CancelCall(role, id)))

\* A trade-stream message at price p makes the handler send nothing.
IssuesNoCancel(p) == ~ENABLED (trades(p) /\ calls' # calls)

BothLegsKnown == stopOrderId # 0 /\ targetOrderId # 0

BothPricesSet == stopPrice # None /\ targetPrice # None

ScaleOut == BothPricesSet /\ scaleOutAmount # None /\ scaleOutAmount < amount

IsOpen(id) == id \in 1..Len(orders) /\ orders[id].status = "NEW"

\* The step is the exit on a sell leg's FILLED report.
SellLegFillExit == pc = "run" /\ pc' = "exit" /\ exitAt' \in {"stopFilled", "targetFilled"}

\* C1 (as claimed): with both legs known, the trade never ends on one leg's fill
\* while the other leg still rests open on the exchange.
C1_Original ==
    (pc = "exit" /\ BothLegsKnown) =>
        /\ exitAt = "stopFilled" => ~IsOpen(targetOrderId)
        /\ exitAt = "targetFilled" => ~IsOpen(stopOrderId)

\* C1 (amended): both legs are known only with a scale-out, and a FILLED report for
\* either leg ends the trade with exit code 0 without sending any cancel.
C1_Amended ==
    /\ [](BothLegsKnown => ScaleOut)
    /\ [][SellLegFillExit => exitCode' = 0 /\ calls' = calls]_vars

C1_Witness ==
    /\ pc = "exit" /\ exitAt = "stopFilled" /\ BothLegsKnown
    /\ IsOpen(targetOrderId)

\* C2 (as claimed): with both legs known and no cancel in flight, a price at or above
\* the target cancels the stop, a price at or below the stop cancels the target, and a
\* price strictly between them cancels nothing.
C2_Original ==
    (Running /\ BothLegsKnown /\ ~isCancelling) =>
        \A p \in TradePrices :
            /\ p >= targetPrice => IssuesCancel(p, "stop", stopOrderId)
            /\ p <= stopPrice => IssuesCancel(p, "target", targetOrderId)
            /\ (stopPrice < p /\ p < targetPrice) => IssuesNoCancel(p)

\* C2 (amended): with no entry order outstanding and no cancel in flight, the stop is
\* cancelled exactly when it is the only known leg and the price is at or above the
\* target, the target exactly when it is the only known leg and the price is at or
\* below the stop; with both legs known no price cancels anything.
C2_Amended ==
    (Running /\ buyOrderId = 0 /\ ~isCancelling) =>
        \A p \in TradePrices :
            /\ IssuesCancel(p, "stop", stopOrderId) <=>
                  (stopOrderId # 0 /\ targetOrderId = 0 /\ p >= targetPrice)
            /\ IssuesCancel(p, "target", targetOrderId) <=>
                  (targetOrderId # 0 /\ stopOrderId = 0 /\ p <= stopPrice)
            /\ BothLegsKnown => IssuesNoCancel(p)

C2_Witness ==
    /\ Running /\ BothLegsKnown /\ ~isCancelling
    /\ IsOpen(stopOrderId) /\ IsOpen(targetOrderId)

\* C3: with the entry order outstanding, a cancel price set and no cancel in flight,
\* a price cancels the entry order iff (stop entry and price <= cancelPrice) or
\* (limit entry and price >= cancelPrice), and cancels nothing else.
C3_PreFillDirection ==
    (Running /\ buyOrderId # 0 /\ cancelPrice # None /\ ~isCancelling) =>
        \A p \in TradePrices :
            /\ IssuesCancel(p, "entry", buyOrderId) <=>
                  \/ isStopEntry /\ p <= cancelPrice
                  \/ isLimitEntry /\ p >= cancelPrice
            /\ ~IssuesCancel(p, "entry", buyOrderId) => IssuesNoCancel(p)

C3_Witness ==
    /\ Running /\ buyOrderId # 0 /\ cancelPrice # None /\ isStopEntry
    /\ \E c \in CancelsInFlight : c.type = "entry" /\ c.oid = buyOrderId

\* C4: at most one cancel is in flight, isCancelling says whether one is, and while
\* one is no price makes the handler send another.
C4_OneCancelInFlight ==
    /\ CancelCount <= 1
    /\ Running => (isCancelling <=> CancelsInFlight # {})
    /\ (Running /\ isCancelling) => \A p \in TradePrices : IssuesNoCancel(p)

C4_Witness ==
    /\ Running /\ isCancelling /\ stopOrderId # 0 /\ targetOrderId = 0
    /\ \E c \in CancelsInFlight : c.st = "sent"

\* The trigger of a cancel holds at price p, in the claim's words.
TriggerHolds(p) ==
    \/ buyOrderId # 0 /\ cancelPrice # None /\
          ((isStopEntry /\ p <= cancelPrice) \/ (isLimitEntry /\ p >= cancelPrice))
    \/ buyOrderId = 0 /\ stopOrderId # 0 /\ targetOrderId = 0 /\ p >= targetPrice
    \/ buyOrderId = 0 /\ targetOrderId # 0 /\ stopOrderId = 0 /\ p <= stopPrice

HasFailedCancel(cs) == \E c \in BagToSet(cs) : c.kind = "cancel" /\ c.st = "err"

\* The step is the callback of a cancel that failed.
CancelErrorReturned == Running /\ HasFailedCancel(calls) /\ ~HasFailedCancel(calls')

\* C5: the callback of a failed cancel clears isCancelling, leaves the order ids and
\* the sell amounts unchanged, places no order, does not end the trade, and leaves
\* the handler ready to cancel again at any price whose trigger still holds.
C5_FailedCancelAbsorbed ==
    [][CancelErrorReturned =>
          /\ isCancelling' = FALSE
          /\ UNCHANGED <<idvars, amtvars, orders, exitvars>>
          /\ BagCardinality(calls') = BagCardinality(calls) - 1
          /\ \A p \in TradePrices : TriggerHolds(p)' => (tradesCancel(p) # "none")']_vars

C5_Witness ==
    /\ Running /\ isCancelling /\ HasFailedCancel(calls)
    /\ \E p \in TradePrices : TriggerHolds(p)

\* The target quantity as normalised at startup (line 171).
NormalTarget == IF scaleOutAmount # None THEN scaleOutAmount ELSE amount

\* x is y less the 0.1% fee, exactly.
FeeTaken(x, y) == 1000 * x = 999 * y

\* The step runs calculateStopAndTargetAmounts.
FeeStep == feeCalcs' = feeCalcs + 1

\* The commission asset the fill reports: on the order-status stream when the entry
\* order id is known, else in the entry placement's response.
ReportedAsset ==
    IF buyOrderId # 0
    THEN Head(events).asset
    ELSE (CHOOSE c \in BagToSet(calls) : c.kind = "buy").asset

HasSell(type) ==
    \/ \E c \in BagToSet(calls) : c.kind = "sell" /\ c.type = type
    \/ \E id \in 1..Len(orders) : orders[id].side = "sell" /\ orders[id].type = type

\* C6: the fee recalculation runs at most once in a trade, whatever the order of the
\* entry placement's response and the order-status reports, duplicates included, and
\* the target quantity never carries the fee twice.
C6_FeeAppliedOnce ==
    amount # None =>
        /\ feeCalcs <= 1
        /\ feeCalcs = 0 => targetSellAmount = NormalTarget
        /\ feeCalcs = 1 => \/ targetSellAmount = NormalTarget
                           \/ FeeTaken(targetSellAmount, NormalTarget)

C6_Witness ==
    /\ Running /\ feeCalcs = 1 /\ buyOrderId = 0
    /\ events # <<>> /\ Head(events).status = "FILLED"
    /\ orders[Head(events).orderId].side = "buy"
    /\ \E id \in 1..Len(orders) : orders[id].side = "sell"

\* C7: on the entry fill both sell amounts stay unchanged exactly when the commission
\* asset is BNB and the non-BNB-fees flag is off, and otherwise both become the amount
\* times 0.999, exactly (10 units become 9.99).
C7_FeeRule ==
    [][FeeStep =>
          IF ReportedAsset = "BNB" /\ ~nonBnbFees
          THEN stopSellAmount' = stopSellAmount /\ targetSellAmount' = targetSellAmount
          ELSE /\ FeeTaken(stopSellAmount', stopSellAmount)
               /\ FeeTaken(targetSellAmount', targetSellAmount)
               /\ stopSellAmount = 10000 => stopSellAmount' = 9990]_vars

C7_Witness ==
    /\ feeCalcs = 1 /\ nonBnbFees
    /\ amount = 10000 /\ stopSellAmount = 9990
    /\ FeeTaken(targetSellAmount, NormalTarget)

\* The step is the entry fill of the claim: fee in BNB, both prices set, no scale-out.
BnbFillBothPrices ==
    FeeStep /\ ReportedAsset = "BNB" /\ BothPricesSet /\ NormalTarget = amount

\* C8 (as claimed): after such a fill both sell amounts equal amount and both a stop
\* and a target order are placed by the fill.
C8_Original ==
    [][BnbFillBothPrices =>
          /\ stopSellAmount' = amount /\ targetSellAmount' = amount
          /\ \E c \in BagToSet(calls') : c.kind = "sell" /\ c.type = "STOP_LOSS_LIMIT"
          /\ \E c \in BagToSet(calls') : c.kind = "sell" /\ c.type = "LIMIT"]_vars

\* C8 (amended): after such a fill with the non-BNB-fees flag off both sell amounts
\* equal amount and the fill places the stop order only; a target order exists only
\* once a stop order has been cancelled.
C8_Amended ==
    /\ [][(BnbFillBothPrices /\ ~nonBnbFees) =>
             /\ stopSellAmount' = amount /\ targetSellAmount' = amount
             /\ CopiesIn(SellCall("STOP_LOSS_LIMIT", amount), calls') = 1
             /\ \A c \in BagToSet(calls') :
                   c.kind = "sell" => c = SellCall("STOP_LOSS_LIMIT", amount)]_vars
    /\ []((BothPricesSet /\ HasSell("LIMIT")) =>
             \E id \in 1..Len(orders) :
                /\ orders[id].type = "STOP_LOSS_LIMIT" /\ orders[id].status = "CANCELED")

C8_Witness ==
    /\ feeCalcs = 1 /\ ~nonBnbFees /\ BothPricesSet /\ NormalTarget = amount
    /\ stopSellAmount = amount /\ targetSellAmount = amount
    /\ \E id \in 1..Len(orders) : orders[id].side = "sell" /\ orders[id].type = "LIMIT"

\* The quantity of the sell orders resting open on the exchange, ids 1..n.
RECURSIVE OpenSellQty(_)
OpenSellQty(n) ==
    IF n = 0 THEN 0
    ELSE OpenSellQty(n - 1) +
         (IF orders[n].side = "sell" /\ orders[n].status = "NEW" THEN orders[n].qty ELSE 0)

\* The fee on a quantity, taken when the trade's fee recalculation took one.
Adjusted(q) == IF targetSellAmount = NormalTarget THEN q ELSE (q * 999) \div 1000

\* C9: with a scale-out the open sell orders never exceed the fee-adjusted position,
\* and once both legs rest the target carries the adjusted scale-out amount and the
\* stop the adjusted rest.
C9_ScaleOutConservation ==
    ScaleOut =>
        /\ OpenSellQty(Len(orders)) <= Adjusted(amount)
        /\ (BothLegsKnown /\ IsOpen(stopOrderId) /\ IsOpen(targetOrderId)) =>
              /\ orders[targetOrderId].qty = Adjusted(scaleOutAmount)
              /\ orders[stopOrderId].qty = Adjusted(amount - scaleOutAmount)

\* C10: once the exchange has cancelled the entry order at the program's request, the
\* trade ends only as CANCELLED (exit code 0, from the cancel's callback) and no sell
\* order is ever placed.
C10_CancelledEntryEndsCancelled ==
    (\E id \in 1..Len(orders) : orders[id].side = "buy" /\ orders[id].status = "CANCELED") =>
        /\ pc = "exit" => (exitCode = 0 /\ exitAt = "cancelBuy")
        /\ ~HasSell("STOP_LOSS_LIMIT") /\ ~HasSell("LIMIT")

\* The trade intent (a, S, s, t) conforms to the filters when no entry is asked for.
Conforms(a, S, s, t, step, tick, minQty, minPrice, minNotional) ==
    Normalize(a, S, None, None, s, None, t, None, step, tick, minQty, minPrice,
              minNotional).ok

\* The startup on a market entry (buyPrice 0) places a market buy for the normalised
\* amount and sets neither entry flag.
MarketBuyPlaced(a, S, s, t, F, step, tick, minQty, minPrice, minNotional) ==
    ENABLED (/\ exchangeInfoCallback(a, S, 0, None, s, t, None, F, step, tick, minQty,
                                     minPrice, minNotional)
             /\ pc' = "run"
             /\ calls' = Put(calls, BuyCall("MARKET", roundStep(a, step), None, None))
             /\ ~isStopEntry' /\ ~isLimitEntry')

\* C11: a trade intent with buyPrice = 0 whose amount and sell prices conform passes
\* the startup normalisation, whatever the pair's minPrice and minNotional, and a
\* market buy for amount is placed with neither isStopEntry nor isLimitEntry set.
C11_MarketEntryPlaced ==
    pc = "init" =>
        \A a \in RawAmounts, S \in RawScaleOuts, s \in RawStopPrices, t \in RawTargetPrices,
           F \in BOOLEAN, step \in StepSizes, tick \in TickSizes, minQty \in MinQtys,
           minPrice \in MinPrices, minNotional \in MinNotionals :
            Conforms(a, S, s, t, step, tick, minQty, minPrice, minNotional) =>
                MarketBuyPlaced(a, S, s, t, F, step, tick, minQty, minPrice, minNotional)

\* The entry order is unresolved: its id is recorded, or its placement is decided or
\* sent and its response has not been handled.
EntryUnresolved ==
    \/ buyOrderId # 0
    \/ pc = "pricing"
    \/ \E c \in BagToSet(calls) : c.kind = "buy"

EntryReportedFilled ==
    \E id \in 1..Len(orders) : orders[id].side = "buy" /\ orders[id].status = "FILLED"

AnySell == HasSell("STOP_LOSS_LIMIT") \/ HasSell("LIMIT")

\* C12: while the entry order is unresolved no stop or target sell is requested or on
\* the exchange, and a sell is requested only when no entry was asked for or after the
\* entry order has filled.
C12_EntryBeforeSells ==
    /\ EntryUnresolved => ~AnySell
    /\ AnySell => (buyPrice = None \/ EntryReportedFilled)

C12_Witness ==
    /\ Running /\ buyPrice # None /\ isLimitEntry /\ EntryReportedFilled
    /\ buyOrderId = 0 /\ feeCalcs = 1
    /\ \E id \in 1..Len(orders) : orders[id].side = "sell" /\ orders[id].status = "NEW"

\* The sell orders of a role that rest open on the exchange.
LiveSells(type) ==
    {id \in 1..Len(orders) :
        orders[id].side = "sell" /\ orders[id].type = type /\ orders[id].status = "NEW"}

\* C13: there are never two live stop orders or two live target orders, and a recorded
\* stopOrderId / targetOrderId names the live order of its role whenever one is live.
C13_OneOrderPerRole ==
    /\ Cardinality(LiveSells("STOP_LOSS_LIMIT")) <= 1
    /\ Cardinality(LiveSells("LIMIT")) <= 1
    /\ (stopOrderId # 0 /\ LiveSells("STOP_LOSS_LIMIT") # {}) =>
          stopOrderId \in LiveSells("STOP_LOSS_LIMIT")
    /\ (targetOrderId # 0 /\ LiveSells("LIMIT") # {}) =>
          targetOrderId \in LiveSells("LIMIT")

\* The number of order ids the program has recorded.
KnownIds ==
    (IF buyOrderId # 0 THEN 1 ELSE 0) + (IF stopOrderId # 0 THEN 1 ELSE 0) +
    (IF targetOrderId # 0 THEN 1 ELSE 0)

\* C14: while isCancelling is true at most one of buyOrderId, stopOrderId and
\* targetOrderId is non-zero.
C14_OneIdWhileCancelling == isCancelling => KnownIds <= 1

\* The step ends the trade as failed on the execution report at the head of the stream.
FatalReport == Running /\ pc' = "exit" /\ exitCode' = 1 /\ exitAt' = "checkOrderFilled"

\* C15: an order is CANCELED only at the program's own request (ExchangeCancel), and
\* the CANCELED report of such an order never ends the trade with exit code 1, whether
\* it is delivered before or after the cancel's response is handled.
C15_OwnCancelNotFatal ==
    [][FatalReport => Head(events).status # "CANCELED"]_vars

\* Nothing about the orders of this side is still on its way to the program: no
\* placement awaits its callback and no execution report awaits delivery.
AllHandled(side) ==
    /\ \A c \in BagToSet(calls) : c.kind # side
    /\ \A i \in 1..Len(events) : orders[events[i].orderId].side # side

\* C16: once the entry order has filled and its placement response and execution
\* reports have all been handled, in either order, without a fatal error, the entry
\* order id is zero and the fee recalculation, with placeSellOrder, has run.
C16_EntryFillPlacesSells ==
    (Running /\ EntryReportedFilled /\ AllHandled("buy")) =>
        (buyOrderId = 0 /\ feeCalcs = 1)

SellLegFilled ==
    \E id \in 1..Len(orders) : orders[id].side = "sell" /\ orders[id].status = "FILLED"

\* Nothing is on its way to the program and no order rests on the exchange.
Quiet ==
    /\ calls = EmptyBag /\ events = <<>>
    /\ \A id \in 1..Len(orders) : orders[id].status # "NEW"

\* C17: once a stop or target order has filled and every placement response and
\* execution report has been handled, in either order, the trade has ended.
C17_SellFillSettles == (SellLegFilled /\ Quiet) => pc = "exit"

\* The buy orders the entry decision may send.
StopLimitBuy ==
    BuyCall("STOP_LOSS_LIMIT", amount,
            IF buyLimitPrice # None THEN buyLimitPrice ELSE buyPrice, buyPrice)

LimitBuy == BuyCall("LIMIT", amount, buyPrice, None)

\* The entry decision at this current price sends this order and leaves these flags.
Decides(currentPrice, order, stopEntry, limitEntry) ==
    ENABLED (/\ pricesCallback(currentPrice)
             /\ calls' = Put(calls, order)
             /\ isStopEntry' = stopEntry /\ isLimitEntry' = limitEntry)

\* A priced entry order has been sent or is known to the exchange.
PricedEntrySent(type) ==
    \/ \E c \in BagToSet(calls) : c.kind = "buy" /\ c.type = type
    \/ \E id \in 1..Len(orders) : orders[id].side = "buy" /\ orders[id].type = type

\* C18: for a positive buyPrice the entry decision is taken once; above the current
\* price it sends a stop-limit buy (trigger buyPrice, limit buyLimitPrice or else
\* buyPrice) and sets isStopEntry alone, below it a limit buy at buyPrice and sets
\* isLimitEntry alone; the flag is set when the order is sent and never changes.
C18_EntryDecision ==
    /\ [](pc = "pricing" =>
             /\ buyPrice > 0 /\ ~isStopEntry /\ ~isLimitEntry
             /\ ~PricedEntrySent("STOP_LOSS_LIMIT") /\ ~PricedEntrySent("LIMIT")
             /\ \A currentPrice \in CurrentPrices :
                   /\ buyPrice > currentPrice =>
                         Decides(currentPrice, StopLimitBuy, TRUE, FALSE)
                   /\ buyPrice < currentPrice =>
                         Decides(currentPrice, LimitBuy, FALSE, TRUE))
    /\ [](/\ PricedEntrySent("STOP_LOSS_LIMIT") => (isStopEntry /\ ~isLimitEntry)
          /\ PricedEntrySent("LIMIT") => (isLimitEntry /\ ~isStopEntry)
          /\ ~(isStopEntry /\ isLimitEntry)
          /\ (pc \in {"run", "exit"} /\ buyPrice # None /\ buyPrice > 0) =>
                (isStopEntry \/ isLimitEntry))
    /\ [][pc # "pricing" => UNCHANGED flagvars]_vars
    /\ [][pc = "pricing" => pc' # "pricing"]_vars

C18_Witness ==
    /\ Running /\ isStopEntry /\ ~isLimitEntry /\ buyLimitPrice = 8 /\ buyPrice = 6
    /\ buyOrderId # 0 /\ IsOpen(buyOrderId)
    /\ orders[buyOrderId].type = "STOP_LOSS_LIMIT"

\* C19: after the startup both sell amounts are strictly positive and every sell is
\* requested with a strictly positive quantity.
C19_PositiveSellAmounts ==
    amount # None =>
        /\ stopSellAmount > 0 /\ targetSellAmount > 0
        /\ \A c \in BagToSet(calls) : c.kind = "sell" => c.qty > 0

ExactlyOnePriceSet == (stopPrice # None) # (targetPrice # None)

\* The step handles the successful response of a sell placement.
SellAcknowledged ==
    Running /\ \E c \in BagToSet(calls) :
                  c.kind = "sell" /\ c.st = "ok" /\ calls' = Take(calls, c)

\* C20: with exactly one of stopPrice and targetPrice set, handling the sell's
\* successful placement response ends the trade with exit code 0 and records no order
\* id, and until then the trade runs, fill or no fill; stopOrderId and targetOrderId
\* are non-zero only when both prices are set.
C20_SingleLegEndsOnAck ==
    /\ [][(ExactlyOnePriceSet /\ SellAcknowledged) =>
             /\ pc' = "exit" /\ exitCode' = 0
             /\ stopOrderId' = 0 /\ targetOrderId' = 0]_vars
    /\ []((ExactlyOnePriceSet /\ Running) =>
             \A id \in 1..Len(orders) :
                orders[id].side = "sell" =>
                    \E c \in BagToSet(calls) : c.kind = "sell" /\ c.oid = id)
    /\ []((stopOrderId # 0 \/ targetOrderId # 0) => BothPricesSet)

C20_Witness ==
    /\ pc = "exit" /\ exitCode = 0 /\ exitAt = "sellComplete"
    /\ stopPrice = None /\ targetPrice # None
    /\ stopOrderId = 0 /\ targetOrderId = 0
    /\ \E id \in 1..Len(orders) : orders[id].type = "LIMIT" /\ orders[id].status = "NEW"

====
